---- MODULE Spec2Model ----
(***************************************************************************)
(* A model of src/services/githubImg.js: the private-repository URL cache  *)
(* (state.urls, state.paths, state.requests) with its request coalescing   *)
(* and TTL, and the prefix operations on paths and HTML.                   *)
(*                                                                         *)
(* JavaScript strings are sequences of one-character strings.  The values  *)
(* null and undefined, and a thrown TypeError, are one-element sequences   *)
(* holding a longer word, so they differ from every string.                *)
(***************************************************************************)
EXTENDS Integers, Sequences, FiniteSets, TLC

VARIABLES urls, paths, requests, clock, ops, calls, queue, done, last, rewrite

cacheVars == <<urls, paths, requests, clock, ops, calls, queue, done, rewrite>>

vars == <<urls, paths, requests, clock, ops, calls, queue, done, last, rewrite>>

\* ------------------------------------------------------------------ bounds
\* getRawUrl calls suspended at the same time, invocations of
\* github.getContents, and steps of the wall clock.
MaxAwaiting == 2
MaxListings == 3
MaxTicks == 4

\* ------------------------------------------------------------ JS values
Null == <<"null">>
Undefined == <<"undefined">>
TypeError == <<"TypeError">>

\* The TTL for the cache, in milliseconds.
ttl == 10000

\* Date.now() when the module is loaded: some positive epoch time.
StartTime == ttl

\* ------------------------------------------------------- object helpers
\* A plain JS object used as a map is a function whose DOMAIN is its keys.
EmptyObject == <<>>

Has(obj, key) == key \in DOMAIN obj

Put(obj, key, value) ==
  [k \in DOMAIN obj \cup {key} |-> IF k = key THEN value ELSE obj[k]]

Delete(obj, key) == [k \in DOMAIN obj \ {key} |-> obj[k]]

\* ------------------------------------------------------- string helpers
RECURSIVE Split(_, _)
\* s.split(sep) for a one-character separator: the segments between them.
Split(s, sep) ==
  IF \A i \in 1..Len(s) : s[i] # sep
  THEN <<s>>
  ELSE LET k == CHOOSE i \in 1..Len(s) :
                  s[i] = sep /\ \A j \in 1..(i - 1) : s[j] # sep
       IN <<SubSeq(s, 1, k - 1)>> \o Split(SubSeq(s, k + 1, Len(s)), sep)

RECURSIVE Join(_, _)
\* segments.join(sep)
Join(segments, sep) ==
  IF Len(segments) = 0 THEN <<>>
  ELSE IF Len(segments) = 1 THEN segments[1]
  ELSE segments[1] \o <<sep>> \o Join(Tail(segments), sep)

\* `${owner}/${repo}/${branch}/${path}`
FullPath(owner, repo, branch, path) ==
  owner \o <<"/">> \o repo \o <<"/">> \o branch \o <<"/">> \o path

\* path.split('/').slice(0, -1).join('/')
ParentPath(path) ==
  LET segments == Split(path, "/")
  IN Join(SubSeq(segments, 1, Len(segments) - 1), "/")

\* String(v), as a template literal and String.prototype.startsWith and
\* .replace convert an argument: undefined becomes the text "undefined",
\* null the text "null".
Str(v) ==
  IF v = Undefined THEN <<"u", "n", "d", "e", "f", "i", "n", "e", "d">>
  ELSE IF v = Null THEN <<"n", "u", "l", "l">>
  ELSE v

\* s.startsWith(prefix)
StartsWith(s, prefix) ==
  LET p == Str(prefix)
  IN Len(p) <= Len(s) /\ SubSeq(s, 1, Len(p)) = p

\* s.indexOf(pattern) + 1: the start of the first occurrence, 0 when none.
IndexOf(s, pattern) ==
  LET hits == {i \in 1..(Len(s) - Len(pattern) + 1) :
                 SubSeq(s, i, i + Len(pattern) - 1) = pattern}
  IN IF hits = {} THEN 0 ELSE CHOOSE i \in hits : \A j \in hits : i <= j

\* The grave accent, a character that a TLA+ string cannot hold.
Grave == "grave"

RECURSIVE Expand(_, _, _, _)
\* The substitution a replacement string stands for (GetSubstitution): $$ is
\* a dollar sign, $& the matched text, $` the text before the match and $'
\* the text after it; with a string pattern there are no groups, so every
\* other use of "$" stands for itself.
Expand(replacement, matched, before, after) ==
  IF replacement = <<>> THEN <<>>
  ELSE IF replacement[1] = "$" /\ Len(replacement) >= 2
            /\ replacement[2] \in {"$", "&", Grave, "'"}
  THEN (CASE replacement[2] = "$" -> <<"$">>
          [] replacement[2] = "&" -> matched
          [] replacement[2] = Grave -> before
          [] OTHER -> after)
       \o Expand(SubSeq(replacement, 3, Len(replacement)), matched, before, after)
  ELSE <<replacement[1]>> \o Expand(Tail(replacement), matched, before, after)

\* s.replace(pattern, replacement) with a string pattern: the first
\* occurrence is replaced by the substitution the replacement stands for.
Replace(s, pattern, replacement) ==
  LET pat == Str(pattern)
      rep == Str(replacement)
      k == IndexOf(s, pat)
      before == SubSeq(s, 1, k - 1)
      after == SubSeq(s, k + Len(pat), Len(s))
  IN IF k = 0 THEN s
     ELSE before \o Expand(rep, pat, before, after) \o after

\* The first position from i on that holds character ch, 0 when none.
Find(s, ch, i) ==
  LET hits == {k \in i..Len(s) : s[k] = ch}
  IN IF hits = {} THEN 0 ELSE CHOOSE k \in hits : \A j \in hits : k <= j

\* One match of /<img [^>]*src=(?:"([^"]+)"|'([^']+)')[^>]*>/ that starts at
\* position i.  The first [^>]* is greedy: of the places where src= may start
\* the last one that lets the rest match is taken.  The quoted value runs to
\* the next quote of its kind and is not empty; then the tag runs to the
\* next ">".
SrcStarts(html, i) ==
  LET gt == Find(html, ">", i + 5)
      limit == IF gt = 0 THEN Len(html) ELSE gt
  IN {j \in (i + 5)..limit :
        /\ j + 5 <= Len(html)
        /\ SubSeq(html, j, j + 3) = <<"s", "r", "c", "=">>
        /\ html[j + 4] \in {"\"", "'"}
        /\ Find(html, html[j + 4], j + 5) > j + 5
        /\ Find(html, ">", Find(html, html[j + 4], j + 5) + 1) > 0}

MatchAt(html, i) ==
  IF /\ i + 4 <= Len(html)
     /\ SubSeq(html, i, i + 4) = <<"<", "i", "m", "g", " ">>
     /\ SrcStarts(html, i) # {}
  THEN LET j == CHOOSE x \in SrcStarts(html, i) : \A y \in SrcStarts(html, i) : y <= x
           q == Find(html, html[j + 4], j + 5)
       IN [found |-> TRUE, src |-> SubSeq(html, j + 5, q - 1),
           quote |-> <<html[j + 4]>>, at |-> j + 5,
           end |-> Find(html, ">", q + 1)]
  ELSE [found |-> FALSE, src |-> <<>>, quote |-> <<>>, at |-> 0, end |-> 0]

RECURSIVE MatchAll(_, _)
\* [...html.matchAll(regex)] from position i on: the matches from left to
\* right, none overlapping; of each, match[1] || match[2] and its quote.
MatchAll(html, i) ==
  IF i > Len(html) THEN <<>>
  ELSE LET m == MatchAt(html, i)
       IN IF m.found
          THEN <<[src |-> m.src, quote |-> m.quote]>> \o MatchAll(html, m.end + 1)
          ELSE MatchAll(html, i + 1)

\* getImgSrcs(html)
getImgSrcs(html) == MatchAll(html, 1)

\* `src=${quote}${src}${quote}`
SrcAttr(quote, src) == <<"s", "r", "c", "=">> \o quote \o src \o quote

\* src is neither rooted nor absolute nor a data URI.
IsRelative(src) ==
  /\ ~StartsWith(src, <<"/">>)
  /\ ~StartsWith(src, <<"h", "t", "t", "p", ":", "/", "/">>)
  /\ ~StartsWith(src, <<"h", "t", "t", "p", "s", ":", "/", "/">>)
  /\ ~StartsWith(src, <<"d", "a", "t", "a", ":", "i", "m", "a", "g", "e", "/">>)

\* The test of swapPrefix and htmlSwapPrefix on a path or source.
Swappable(src, from) ==
  /\ StartsWith(src, from)
  /\ ~(from = <<"/">> /\ StartsWith(src, <<"/", "/">>))
  /\ ~StartsWith(src, <<"h", "t", "t", "p", ":", "/", "/">>)
  /\ ~StartsWith(src, <<"h", "t", "t", "p", "s", ":", "/", "/">>)
  /\ ~StartsWith(src, <<"d", "a", "t", "a", ":", "i", "m", "a", "g", "e", "/">>)

\* swapPrefix(path, from, to)
swapPrefix(path, from, to) ==
  IF path # Undefined /\ path # Null /\ from # Undefined /\ from # Null
     /\ to # Undefined /\ to # Null
  THEN IF Swappable(path, from) THEN Replace(path, from, to) ELSE path
  ELSE path

RECURSIVE SwapEach(_, _, _, _)
\* The forEach of htmlSwapPrefix over the matches, from the first on.
SwapEach(newHtml, matches, from, to) ==
  IF matches = <<>> THEN newHtml
  ELSE LET src == Head(matches).src
           quote == Head(matches).quote
           swapped ==
             IF Swappable(src, from)
             THEN Replace(newHtml, SrcAttr(quote, src),
                          SrcAttr(quote, Replace(src, from, to)))
             ELSE newHtml
       IN SwapEach(swapped, Tail(matches), from, to)

\* htmlSwapPrefix(html, from, to)
htmlSwapPrefix(html, from, to) ==
  IF html # Undefined /\ html # Null /\ from # Undefined /\ from # Null
     /\ to # Undefined /\ to # Null
  THEN SwapEach(html, getImgSrcs(html), from, to)
  ELSE html

RECURSIVE RemoveEach(_, _, _)
\* The forEach of removePrefix over the matches, from the first on.
RemoveEach(html, matches, prefix) ==
  IF matches = <<>> THEN html
  ELSE LET src == Head(matches).src
           quote == Head(matches).quote
           removed ==
             IF StartsWith(src, prefix)
                /\ ~(prefix = <<"/">> /\ StartsWith(src, <<"/", "/">>))
             THEN Replace(html, SrcAttr(quote, src),
                          SrcAttr(quote, Replace(src, prefix, <<>>)))
             ELSE html
       IN RemoveEach(removed, Tail(matches), prefix)

\* removePrefix(html, prefix); html.matchAll of an undefined html throws.
removePrefix(html, prefix) ==
  IF html = Undefined \/ html = Null THEN TypeError
  ELSE RemoveEach(html, getImgSrcs(html), prefix)

RECURSIVE AddEach(_, _, _)
\* The forEach of addPrefix over the matches, from the first on.
AddEach(html, matches, prefix) ==
  IF matches = <<>> THEN html
  ELSE LET src == Head(matches).src
           quote == Head(matches).quote
           added ==
             IF IsRelative(src)
             THEN Replace(html, SrcAttr(quote, src),
                          SrcAttr(quote, Str(prefix) \o src))
             ELSE html
       IN AddEach(added, Tail(matches), prefix)

\* addPrefix(html, prefix); html.matchAll of an undefined html throws.
addPrefix(html, prefix) ==
  IF html = Undefined \/ html = Null THEN TypeError
  ELSE AddEach(html, getImgSrcs(html), prefix)

\* ------------------------------------------------ raw-content URLs
\* 'https://raw.githubusercontent.com/'
RawHost ==
  <<"h", "t", "t", "p", "s", ":", "/", "/", "r", "a", "w", ".", "g", "i",
   "t", "h", "u", "b", "u", "s", "e", "r", "c", "o", "n", "t", "e", "n",
   "t", ".", "c", "o", "m", "/">>

\* `https://raw.githubusercontent.com/${owner}/${repo}/${branch}/`
RawPrefix(owner, repo, branch) ==
  RawHost \o owner \o <<"/">> \o repo \o <<"/">> \o branch \o <<"/">>

\* getRawUrl(owner, repo, branch, path, false): the public raw-content URL.
PublicRawUrl(owner, repo, branch, path) ==
  RawHost \o owner \o <<"/">> \o repo \o <<"/">> \o branch \o <<"/">> \o path

\* The relative path with the host alone replaced by nothing.
RelativeHostOnly(owner, repo, branch, url) ==
  Split(Replace(url, RawHost, <<>>), "?")[1]

\* The relative path of a raw-content URL: the prefix of this owner, repo
\* and branch replaced by nothing where it first occurs, then everything
\* from the first "?" on dropped.
Relative(owner, repo, branch, url) ==
  Split(Replace(url, RawPrefix(owner, repo, branch), <<>>), "?")[1]

\* getRelativeUrl(owner, repo, branch, path)
getRelativeUrl(owner, repo, branch, path) ==
  IF StartsWith(path, RawHost) THEN Relative(owner, repo, branch, path) ELSE path

RECURSIVE RawEach(_, _, _, _, _)
\* The loop of relativeToRawUrls in public mode over the matches, from the
\* first on; the raw URL of a source is a non-empty string, hence truthy.
RawEach(newHtml, matches, owner, repo, branch) ==
  IF matches = <<>> THEN newHtml
  ELSE LET src == Head(matches).src
           quote == Head(matches).quote
           rawUrl == PublicRawUrl(owner, repo, branch, src)
           swapped ==
             IF IsRelative(src)
             THEN Replace(newHtml, SrcAttr(quote, src), SrcAttr(quote, rawUrl))
             ELSE newHtml
       IN RawEach(swapped, Tail(matches), owner, repo, branch)

\* relativeToRawUrls(owner, repo, branch, html, false): in public mode the
\* awaited getRawUrl neither reads nor writes the state, so the value of the
\* call is a function of its arguments.
relativeToRawUrls(owner, repo, branch, html) ==
  IF html = Undefined \/ html = Null THEN TypeError
  ELSE RawEach(html, getImgSrcs(html), owner, repo, branch)

RECURSIVE RelativeEach(_, _, _, _, _)
\* The loop of rawToRelativeUrls over the matches, from the first on.
RelativeEach(html, matches, owner, repo, branch) ==
  IF matches = <<>> THEN html
  ELSE LET src == Head(matches).src
           quote == Head(matches).quote
           swapped ==
             IF StartsWith(src, RawHost)
             THEN Replace(html, SrcAttr(quote, src),
                          SrcAttr(quote, Relative(owner, repo, branch, src)))
             ELSE html
       IN RelativeEach(swapped, Tail(matches), owner, repo, branch)

\* rawToRelativeUrls(owner, repo, branch, html)
rawToRelativeUrls(owner, repo, branch, html) ==
  IF html = Undefined \/ html = Null THEN TypeError
  ELSE RelativeEach(html, getImgSrcs(html), owner, repo, branch)

\* ------------------------------------------------------------ the inputs
Owners == {<<"o">>}
Repos == {<<"r">>}
Branches == {<<"m">>}

\* Repository-relative image paths: two files of one directory.
Paths == {<<"d", "/", "a">>, <<"d", "/", "b">>}

\* An <img> tag with the given quote and source, as HTML text.
Img(quote, src) ==
  <<"<", "i", "m", "g", " ", "s", "r", "c", "=">> \o quote \o src \o quote \o <<">">>

\* An element that is not an <img> and has a src attribute, as HTML text.
Other(quote, src) ==
  <<"<", "v", " ", "s", "r", "c", "=">> \o quote \o src \o quote \o <<">">>

\* The arguments of the prefix operations: paths and sources that are
\* rooted, relative and protocol-relative; prefixes; HTML snippets with
\* double- and single-quoted sources, with a source that holds "$$", and
\* with the text of a source attribute in an element before the <img>; and
\* undefined for each of them.
PrefixPaths == {<<"/", "x", "/", "a">>, <<"a">>, <<"/", "/", "c">>, Undefined}

Prefixes == {<<"/">>, <<"/", "x">>, <<"y", "/">>, Undefined}

Htmls ==
  {Img(<<"\"">>, <<"/", "x", "/", "a">>),
   Img(<<"'">>, <<"b">>),
   <<"<", "p", ">">> \o Img(<<"\"">>, <<"a">>) \o Img(<<"\"">>, <<"/", "/", "c">>),
   Img(<<"'">>, <<"a", "$", "$", "b">>),
   Other(<<"\"">>, <<"a">>) \o Img(<<"\"">>, <<"a">>),
   Undefined}

\* The arguments of the raw-content URL operations.  Owners and branches:
\* two of each, so that a raw URL of one is a foreign URL to the other.
UrlOwners == {<<"o">>, <<"p">>}

UrlRepos == {<<"r">>}

UrlBranches == {<<"m">>, <<"n">>}

\* Repository-relative paths: in the root, in a directory, and with a "?".
RepoPaths == {<<"a">>, <<"d", "/", "a">>, <<"a", "?", "b">>}

\* Raw-content URLs of owner o, repo r, branch m, bare and with a token.
RawUrls ==
  {PublicRawUrl(<<"o">>, <<"r">>, <<"m">>, path) \o query :
     path \in {<<"a">>, <<"d", "/", "a">>}, query \in {<<>>, <<"?", "t">>}}

UrlPaths == RepoPaths \cup RawUrls

\* HTML with relative sources (one holding "$$"), with raw-content URLs as
\* sources, with a rooted source, and with the text of a source attribute
\* in an element before the <img>.
UrlHtmls ==
  {Img(<<"\"">>, <<"d", "/", "a">>),
   Img(<<"'">>, <<"a", "$", "$", "b">>),
   Img(<<"\"">>, <<"/", "x", "/", "a">>) \o Img(<<"'">>, <<"b">>),
   Other(<<"\"">>, <<"d", "/", "a">>) \o Img(<<"\"">>, <<"d", "/", "a">>)}
  \cup {Img(<<"\"">>, url) : url \in RawUrls}

\* The download_url tokens a listing may carry; they may change between two
\* listings of the same directory.
Versions == {"1", "2"}

DownloadUrl(path, v) == <<"h", ":">> \o path \o <<"?", v>>

\* What github.getContents may resolve to for a directory: undefined, or the
\* descriptors {path, download_url} of some of the files of that directory,
\* as a function from path to download_url.
NoFiles == [defined |-> FALSE, list |-> <<>>]

Listings(parentPath) ==
  {NoFiles} \cup
  { [defined |-> TRUE, list |-> [p \in S |-> DownloadUrl(p, v)]] :
      S \in SUBSET {p \in Paths : ParentPath(p) = parentPath}, v \in Versions }

\* ------------------------------------------------------------- the state
\* urls, paths, requests: the three mappings of `state`.
\* clock: Date.now().
\* ops: the promises github.getContents has returned, in the order of its
\*   invocations, each with its arguments, its status and its value.
\* calls: the getRawUrl calls suspended on a pending promise, in the order
\*   in which they reached their await.
\* queue: the continuations of getRawUrl calls whose promise is settled, in
\*   the order in which the runtime queued them as jobs; an entry is glued
\*   when it was queued in the same instant as the one before it (the calls
\*   that were waiting on one promise when it was settled), so that the two
\*   run back to back.
\* done: the getRawUrl call that completed last, with its result.
\* last: the prefix operation called last, with its arguments and its value
\*   (TypeError when it threw).
\* rewrite: the private-mode relativeToRawUrls call in progress: its
\*   arguments, newHtml, and the matches its loop has still to visit.
NoRewrite ==
  [pc |-> "idle", owner |-> <<>>, repo |-> <<>>, branch |-> <<>>,
   html |-> <<>>, newHtml |-> <<>>, matches |-> <<>>]

NoCall ==
  [owner |-> <<>>, repo |-> <<>>, branch |-> <<>>, path |-> <<>>,
   pc |-> "none", op |-> 0, issued |-> FALSE, result |-> Null]

Init ==
  /\ urls = EmptyObject
  /\ paths = EmptyObject
  /\ requests = EmptyObject
  /\ clock = StartTime
  /\ ops = <<>>
  /\ calls = <<>>
  /\ queue = <<>>
  /\ done = NoCall
  /\ last = [fn |-> "none", args |-> <<>>, value |-> Undefined]
  /\ rewrite = NoRewrite

\* The test !state.urls[key] of a mapping whose values are strings.
Truthy(obj, key) == Has(obj, key) /\ obj[key] # Null /\ obj[key] # <<>>

\* state.urls[key] || null
Lookup(obj, key) == IF Truthy(obj, key) THEN obj[key] ELSE Null

\* addRawUrls with the entries keyed by the path of the descriptor alone.
AddRawUrlsByPath(u, owner, repo, branch, files) ==
  IF files.defined
  THEN [k \in DOMAIN u \cup DOMAIN files.list |->
          IF k \in DOMAIN files.list THEN files.list[k] ELSE u[k]]
  ELSE u

\* addRawUrls with the mapping replaced by the entries of the listing.
AddRawUrlsOnly(u, owner, repo, branch, files) ==
  IF files.defined
  THEN [k \in {FullPath(owner, repo, branch, p) : p \in DOMAIN files.list} |->
          files.list[CHOOSE p \in DOMAIN files.list :
                       FullPath(owner, repo, branch, p) = k]]
  ELSE u

\* addRawUrls(owner, repo, branch, files): the urls mapping afterwards.
AddRawUrls(u, owner, repo, branch, files) ==
  IF files.defined
  THEN [k \in DOMAIN u \cup {FullPath(owner, repo, branch, p) : p \in DOMAIN files.list} |->
          IF \E p \in DOMAIN files.list : FullPath(owner, repo, branch, p) = k
          THEN files.list[CHOOSE p \in DOMAIN files.list :
                            FullPath(owner, repo, branch, p) = k]
          ELSE u[k]]
  ELSE u

\* The age test with a marker that never expires.
ExpiredNever(stamp, now) == FALSE

\* The age test with a marker that expires at the age of exactly the TTL.
ExpiredAtTtl(stamp, now) == stamp <= now - ttl

\* The age test of the listing marker: older than the TTL at query time.
Expired(stamp, now) == stamp < now - ttl

\* state.paths after the lazy removal of an expired marker.
DropExpired(p, key, now) ==
  IF Has(p, key) /\ Expired(p[key], now) THEN Delete(p, key) ELSE p

\* getRawUrl invoking github.getContents whatever is stored.
MustRequestAlways(r, key) == TRUE

\* Whether getRawUrl invokes github.getContents: no promise is stored for
\* the directory.
MustRequest(r, key) == ~Has(r, key)

\* state.requests after the continuation of getRawUrl has run.
ClearRequest(r, key) == Delete(r, key)

\* A call: its arguments, its position (awaiting the listing, returned,
\* thrown), the promise it awaits (0: it never suspended), whether it invoked
\* github.getContents itself, and its result.
CallRec(owner, repo, branch, path, pc, op, issued, result) ==
  [owner |-> owner, repo |-> repo, branch |-> branch, path |-> path,
   pc |-> pc, op |-> op, issued |-> issued, result |-> result]

\* Jobs run to completion: while the next job of the queue is glued to the
\* one that ran last, nothing else runs.
MidBatch == queue # <<>> /\ Head(queue).glued

\* `await promise`: on a pending promise the call waits for its settlement;
\* on a settled one its continuation is queued at once, as a job of its own.
Await(rec, promises) ==
  /\ Len(calls) + Len(queue) < MaxAwaiting
  /\ IF promises[rec.op].status = "pending"
     THEN calls' = Append(calls, rec) /\ UNCHANGED queue
     ELSE queue' = Append(queue, [call |-> rec, glued |-> FALSE]) /\ UNCHANGED calls
  /\ UNCHANGED done

\* getRawUrl(owner, repo, branch, path, true), from its call to its first
\* suspension, or to its return when it does not suspend.
GetRawUrlCall(owner, repo, branch, path) ==
  LET fullPath == FullPath(owner, repo, branch, path)
      parentPath == ParentPath(path)
      fullParentPath == FullPath(owner, repo, branch, parentPath)
      kept == DropExpired(paths, fullParentPath, clock)
      promise == [owner |-> owner, repo |-> repo, branch |-> branch,
                  path |-> parentPath, dir |-> fullParentPath,
                  status |-> "pending", files |-> NoFiles]
  IN /\ ~MidBatch
     /\ UNCHANGED <<last, rewrite>>
     /\ IF Truthy(urls, fullPath)
        THEN /\ done' = CallRec(owner, repo, branch, path, "returned", 0, FALSE,
                                Lookup(urls, fullPath))
             /\ UNCHANGED <<urls, paths, requests, clock, ops, calls, queue>>
        ELSE IF Has(kept, fullParentPath)
        THEN /\ paths' = kept
             /\ done' = CallRec(owner, repo, branch, path, "returned", 0, FALSE, Null)
             /\ UNCHANGED <<urls, requests, clock, ops, calls, queue>>
        ELSE IF MustRequest(requests, fullParentPath)
        THEN /\ Len(ops) < MaxListings
             /\ paths' = kept
             /\ ops' = Append(ops, promise)
             /\ requests' = Put(requests, fullParentPath, Len(ops) + 1)
             /\ Await(CallRec(owner, repo, branch, path, "awaiting",
                              Len(ops) + 1, TRUE, Null), ops')
             /\ UNCHANGED <<urls, clock>>
        ELSE /\ paths' = kept
             /\ Await(CallRec(owner, repo, branch, path, "awaiting",
                              requests[fullParentPath], FALSE, Null), ops)
             /\ UNCHANGED <<urls, requests, clock, ops>>

\* The calls waiting on promise o, and the others, each in their order.
Waiting(o) == SelectSeq(calls, LAMBDA c : c.op = o)

NotWaiting(o) == SelectSeq(calls, LAMBDA c : c.op # o)

\* The settlement of promise o queues the continuations of the calls that
\* wait on it, in the order in which they started to wait, as one batch.
Settle(o) ==
  LET w == Waiting(o)
  IN /\ calls' = NotWaiting(o)
     /\ queue' = queue \o [i \in 1..Len(w) |-> [call |-> w[i], glued |-> i > 1]]

\* The collaborator fulfils a pending listing operation.
Resolve(o, files) ==
  /\ ~MidBatch
  /\ ops[o].status = "pending"
  /\ ops' = [ops EXCEPT ![o].status = "resolved", ![o].files = files]
  /\ Settle(o)
  /\ UNCHANGED <<urls, paths, requests, clock, done, last, rewrite>>

\* The collaborator rejects a pending listing operation.
Reject(o) ==
  /\ ~MidBatch
  /\ ops[o].status = "pending"
  /\ ops' = [ops EXCEPT ![o].status = "rejected"]
  /\ Settle(o)
  /\ UNCHANGED <<urls, paths, requests, clock, done, last, rewrite>>

\* A settled promise that neither state.requests nor a suspended call refers
\* to is unreachable: it is collected, and only the fact that it was settled
\* stays in the history of invocations.
Collect(o2, r2, q2) ==
  [o \in 1..Len(o2) |->
     IF /\ o2[o].status # "pending"
        /\ \A k \in DOMAIN r2 : r2[k] # o
        /\ \A i \in 1..Len(q2) : q2[i].call.op # o
     THEN [o2[o] EXCEPT !.status = "collected", !.files = NoFiles]
     ELSE o2[o]]

\* The oldest job of the queue runs: getRawUrl resumes after
\* `await state.requests[fullParentPath]`.  With the files of a fulfilled
\* promise it runs to its return; a rejected promise makes the await throw,
\* and nothing after it runs.
Resume ==
  /\ queue # <<>>
  /\ UNCHANGED <<last, rewrite>>
  /\ LET call == Head(queue).call
         op == ops[call.op]
         fullPath == FullPath(call.owner, call.repo, call.branch, call.path)
         fullParentPath ==
           FullPath(call.owner, call.repo, call.branch, ParentPath(call.path))
         added == AddRawUrls(urls, call.owner, call.repo, call.branch, op.files)
     IN /\ queue' = Tail(queue)
        /\ IF op.status = "resolved"
           THEN /\ urls' = added
                /\ requests' = ClearRequest(requests, fullParentPath)
                /\ paths' = Put(paths, fullParentPath, clock)
                /\ done' = [call EXCEPT !.pc = "returned",
                                        !.result = Lookup(added, fullPath)]
                /\ ops' = Collect(ops, requests', queue')
                /\ UNCHANGED <<clock, calls>>
           ELSE /\ done' = [call EXCEPT !.pc = "thrown"]
                /\ ops' = Collect(ops, requests, queue')
                /\ UNCHANGED <<urls, paths, requests, clock, calls>>

\* Wall-clock time passes between two steps of the program.
Tick ==
  /\ clock + ttl <= StartTime + MaxTicks * ttl
  /\ clock' = clock + ttl
  /\ UNCHANGED <<urls, paths, requests, ops, calls, queue, done, last, rewrite>>

Next ==
  \/ \E owner \in Owners, repo \in Repos, branch \in Branches, path \in Paths :
       GetRawUrlCall(owner, repo, branch, path)
  \/ \E o \in 1..Len(ops) : \E files \in Listings(ops[o].path) : Resolve(o, files)
  \/ \E o \in 1..Len(ops) : Reject(o)
  \/ Resume
  \/ Tick

Spec == Init /\ [][Next]_vars

\* ------------------------------------------------- the prefix operations
SwapPrefixCall(path, from, to) ==
  /\ last' = [fn |-> "swapPrefix", args |-> <<path, from, to>>,
              value |-> swapPrefix(path, from, to)]
  /\ UNCHANGED cacheVars

HtmlSwapPrefixCall(html, from, to) ==
  /\ last' = [fn |-> "htmlSwapPrefix", args |-> <<html, from, to>>,
              value |-> htmlSwapPrefix(html, from, to)]
  /\ UNCHANGED cacheVars

RemovePrefixCall(html, prefix) ==
  /\ last' = [fn |-> "removePrefix", args |-> <<html, prefix>>,
              value |-> removePrefix(html, prefix)]
  /\ UNCHANGED cacheVars

AddPrefixCall(html, prefix) ==
  /\ last' = [fn |-> "addPrefix", args |-> <<html, prefix>>,
              value |-> addPrefix(html, prefix)]
  /\ UNCHANGED cacheVars

NextPrefix ==
  \/ \E path \in PrefixPaths, from \in Prefixes, to \in Prefixes :
       SwapPrefixCall(path, from, to)
  \/ \E html \in Htmls, from \in Prefixes, to \in Prefixes :
       HtmlSwapPrefixCall(html, from, to)
  \/ \E html \in Htmls, prefix \in Prefixes : RemovePrefixCall(html, prefix)
  \/ \E html \in Htmls, prefix \in Prefixes : AddPrefixCall(html, prefix)

SpecPrefix == Init /\ [][NextPrefix]_vars

\* ---------------------------------------- the raw-content URL operations
GetRelativeUrlCall(owner, repo, branch, path) ==
  /\ last' = [fn |-> "getRelativeUrl", args |-> <<owner, repo, branch, path>>,
              value |-> getRelativeUrl(owner, repo, branch, path)]
  /\ UNCHANGED cacheVars

RelativeToRawUrlsCall(owner, repo, branch, html) ==
  /\ last' = [fn |-> "relativeToRawUrls", args |-> <<owner, repo, branch, html>>,
              value |-> relativeToRawUrls(owner, repo, branch, html)]
  /\ UNCHANGED cacheVars

RawToRelativeUrlsCall(owner, repo, branch, html) ==
  /\ last' = [fn |-> "rawToRelativeUrls", args |-> <<owner, repo, branch, html>>,
              value |-> rawToRelativeUrls(owner, repo, branch, html)]
  /\ UNCHANGED cacheVars

\* rawToRelativeUrls applied to the value of relativeToRawUrls in public
\* mode, with the same owner, repo and branch.
RawThenRelativeUrlsCall(owner, repo, branch, html) ==
  /\ last' = [fn |-> "relativeToRawUrls;rawToRelativeUrls",
              args |-> <<owner, repo, branch, html>>,
              value |-> rawToRelativeUrls(owner, repo, branch,
                          relativeToRawUrls(owner, repo, branch, html))]
  /\ UNCHANGED cacheVars

\* getRelativeUrl applied to the URL that getRawUrl builds in public mode.
RawThenRelativeUrlCall(owner, repo, branch, path) ==
  /\ last' = [fn |-> "getRawUrl;getRelativeUrl",
              args |-> <<owner, repo, branch, path>>,
              value |-> getRelativeUrl(owner, repo, branch,
                          PublicRawUrl(owner, repo, branch, path))]
  /\ UNCHANGED cacheVars

NextUrl ==
  \/ \E owner \in UrlOwners, repo \in UrlRepos, branch \in UrlBranches,
        path \in UrlPaths : GetRelativeUrlCall(owner, repo, branch, path)
  \/ \E owner \in UrlOwners, repo \in UrlRepos, branch \in UrlBranches,
        html \in UrlHtmls : RelativeToRawUrlsCall(owner, repo, branch, html)
  \/ \E owner \in UrlOwners, repo \in UrlRepos, branch \in UrlBranches,
        html \in UrlHtmls : RawToRelativeUrlsCall(owner, repo, branch, html)
  \/ \E owner \in UrlOwners, repo \in UrlRepos, branch \in UrlBranches,
        html \in UrlHtmls : RawThenRelativeUrlsCall(owner, repo, branch, html)
  \/ \E owner \in UrlOwners, repo \in UrlRepos, branch \in UrlBranches,
        path \in RepoPaths : RawThenRelativeUrlCall(owner, repo, branch, path)

SpecUrl == Init /\ [][NextUrl]_vars

\* ------------------------------------------- getRawUrl in either mode
\* The mode with a test that always takes the private branch.
PrivateAlways(isPrivate) == TRUE

\* if (isPrivate)
Private(isPrivate) == isPrivate = TRUE

\* getRawUrl(owner, repo, branch, path, isPrivate): in private mode as
\* above; in public mode it returns the raw-content URL at once.
GetRawUrl(owner, repo, branch, path, isPrivate) ==
  IF Private(isPrivate)
  THEN GetRawUrlCall(owner, repo, branch, path)
  ELSE /\ ~MidBatch
       /\ done' = CallRec(owner, repo, branch, path, "returned", 0, FALSE,
                          PublicRawUrl(owner, repo, branch, path))
       /\ UNCHANGED <<urls, paths, requests, clock, ops, calls, queue, last, rewrite>>

NextModes ==
  \/ \E owner \in Owners, repo \in Repos, branch \in Branches, path \in Paths,
        isPrivate \in BOOLEAN : GetRawUrl(owner, repo, branch, path, isPrivate)
  \/ \E o \in 1..Len(ops) : \E files \in Listings(ops[o].path) : Resolve(o, files)
  \/ \E o \in 1..Len(ops) : Reject(o)
  \/ Resume
  \/ Tick

SpecModes == Init /\ [][NextModes]_vars

\* ------------------------------------- time passing after a request
\* Wall-clock time passes once a listing has been requested.
TickAfterRequest == ops # <<>> /\ Tick

\* The private mode with a clock that stands still until the first listing
\* is requested: the first listing is requested at StartTime.
NextStamp ==
  \/ \E owner \in Owners, repo \in Repos, branch \in Branches, path \in Paths :
       GetRawUrlCall(owner, repo, branch, path)
  \/ \E o \in 1..Len(ops) : \E files \in Listings(ops[o].path) : Resolve(o, files)
  \/ \E o \in 1..Len(ops) : Reject(o)
  \/ Resume
  \/ TickAfterRequest

SpecStamp == Init /\ [][NextStamp]_vars

\* ------------------------------------ relativeToRawUrls, private mode
\* HTML with two sources of one directory, with sources of two
\* directories, with a rooted source, and with the text of a source
\* attribute in an element before the <img>.
RewriteHtmls ==
  {Img(<<"\"">>, <<"d", "/", "a">>) \o Img(<<"'">>, <<"d", "/", "b">>),
   Img(<<"\"">>, <<"d", "/", "a">>) \o Img(<<"\"">>, <<"e", "/", "c">>),
   Img(<<"'">>, <<"d", "/", "a">>) \o Img(<<"\"">>, <<"/", "x", "/", "a">>),
   Other(<<"\"">>, <<"d", "/", "a">>) \o Img(<<"\"">>, <<"d", "/", "a">>)}

\* The files of the repository: two in directory d, one in directory e.
RewritePaths == {<<"d", "/", "a">>, <<"d", "/", "b">>, <<"e", "/", "c">>}

\* What github.getContents may resolve to for a directory of these files.
RewriteListings(parentPath) ==
  {NoFiles} \cup
  { [defined |-> TRUE, list |-> [p \in S |-> DownloadUrl(p, v)]] :
      S \in SUBSET {p \in RewritePaths : ParentPath(p) = parentPath},
      v \in Versions }

\* relativeToRawUrls(owner, repo, branch, html, true) is called on the empty
\* cache: newHtml = html, matches = getImgSrcs(newHtml).
RelativeToRawUrlsStart(owner, repo, branch, html) ==
  /\ rewrite.pc = "idle"
  /\ urls = EmptyObject /\ paths = EmptyObject /\ requests = EmptyObject
  /\ ops = <<>>
  /\ rewrite' = [pc |-> "loop", owner |-> owner, repo |-> repo, branch |-> branch,
                 html |-> html, newHtml |-> html, matches |-> getImgSrcs(html)]
  /\ UNCHANGED <<urls, paths, requests, clock, ops, calls, queue, done, last>>

\* The loop reaches a source that is rooted, absolute or a data URI.
RewriteSkip ==
  /\ rewrite.pc = "loop"
  /\ rewrite.matches # <<>>
  /\ ~IsRelative(Head(rewrite.matches).src)
  /\ rewrite' = [rewrite EXCEPT !.matches = Tail(rewrite.matches)]
  /\ UNCHANGED <<urls, paths, requests, clock, ops, calls, queue, done, last>>

\* The loop reaches a relative source: getRawUrl(owner, repo, branch, src,
\* true) is called, and awaited.
RewriteAsk ==
  /\ rewrite.pc = "loop"
  /\ rewrite.matches # <<>>
  /\ IsRelative(Head(rewrite.matches).src)
  /\ done = NoCall /\ calls = <<>> /\ queue = <<>>
  /\ GetRawUrlCall(rewrite.owner, rewrite.repo, rewrite.branch,
                   Head(rewrite.matches).src)

\* The awaited getRawUrl has returned rawUrl: if (rawUrl) the source
\* attribute is replaced in newHtml; the loop moves on.
RewriteTake ==
  /\ rewrite.pc = "loop"
  /\ done.pc = "returned"
  /\ LET src == Head(rewrite.matches).src
         quote == Head(rewrite.matches).quote
         rawUrl == done.result
     IN rewrite' =
          [rewrite EXCEPT
             !.newHtml = IF rawUrl # Null /\ rawUrl # <<>>
                         THEN Replace(rewrite.newHtml, SrcAttr(quote, src),
                                      SrcAttr(quote, rawUrl))
                         ELSE rewrite.newHtml,
             !.matches = Tail(rewrite.matches)]
  /\ done' = NoCall
  /\ UNCHANGED <<urls, paths, requests, clock, ops, calls, queue, last>>

\* The loop is over: return newHtml.
RewriteReturn ==
  /\ rewrite.pc = "loop"
  /\ rewrite.matches = <<>>
  /\ rewrite' = [rewrite EXCEPT !.pc = "returned"]
  /\ last' = [fn |-> "relativeToRawUrls",
              args |-> <<rewrite.owner, rewrite.repo, rewrite.branch,
                         rewrite.html, TRUE>>,
              value |-> rewrite.newHtml]
  /\ UNCHANGED <<urls, paths, requests, clock, ops, calls, queue, done>>

\* One private-mode relativeToRawUrls call from the empty cache, with a
\* collaborator that fulfils every listing, and no time passing.
NextRewrite ==
  \/ \E owner \in Owners, repo \in Repos, branch \in Branches, html \in RewriteHtmls :
       RelativeToRawUrlsStart(owner, repo, branch, html)
  \/ RewriteSkip
  \/ RewriteAsk
  \/ \E o \in 1..Len(ops) : \E files \in RewriteListings(ops[o].path) :
       Resolve(o, files)
  \/ Resume
  \/ RewriteTake
  \/ RewriteReturn

SpecRewrite == Init /\ [][NextRewrite]_vars

\* --------------------------------------- every operation on HTML text
\* removePrefix applied to the value of addPrefix, with the same prefix.
AddThenRemovePrefixCall(html, prefix) ==
  /\ last' = [fn |-> "addPrefix;removePrefix", args |-> <<html, prefix>>,
              value |-> removePrefix(addPrefix(html, prefix), prefix)]
  /\ UNCHANGED cacheVars

NextHtml ==
  \/ NextPrefix
  \/ NextUrl
  \/ \E html \in Htmls, prefix \in Prefixes : AddThenRemovePrefixCall(html, prefix)

SpecHtml == Init /\ [][NextHtml]_vars

\* ------------------------------------------------------------ vocabulary
\* The fully-qualified directory paths of the model.
Dirs ==
  {FullPath(owner, repo, branch, ParentPath(path)) :
     owner \in Owners, repo \in Repos, branch \in Branches, path \in Paths}

DirOf(call) == FullPath(call.owner, call.repo, call.branch, ParentPath(call.path))

FileOf(call) == FullPath(call.owner, call.repo, call.branch, call.path)

\* The invocations of github.getContents for directory d, and those of them
\* that are unsettled.
OpsOf(d) == {o \in 1..Len(ops) : ops[o].dir = d}

PendingOf(d) == {o \in OpsOf(d) : ops[o].status = "pending"}

\* The suspended calls: waiting on a pending promise, or queued to resume.
Suspended ==
  {calls[i] : i \in 1..Len(calls)} \cup {queue[i].call : i \in 1..Len(queue)}

Coords == Owners \X Repos \X Branches \X Paths

File(a) == FullPath(a[1], a[2], a[3], a[4])

Dir(a) == FullPath(a[1], a[2], a[3], ParentPath(a[4]))

\* The step is a private getRawUrl call with these arguments.
IsCall(a) == GetRawUrlCall(a[1], a[2], a[3], a[4])

\* The step suspends a new call with arguments a on promise o.
Joins(a, o, issued) ==
  LET rec == CallRec(a[1], a[2], a[3], a[4], "awaiting", o, issued, Null)
  IN \/ calls' = Append(calls, rec) /\ queue' = queue
     \/ queue' = Append(queue, [call |-> rec, glued |-> FALSE]) /\ calls' = calls

\* The step invokes github.getContents for directory d and stores the promise.
Issues(d) ==
  /\ Len(ops') = Len(ops) + 1
  /\ ops'[Len(ops')].dir = d
  /\ ops'[Len(ops')].status = "pending"
  /\ Has(requests', d) /\ requests'[d] = Len(ops')

\* The step invokes github.getContents for directory d.
Lists(d) == \E o \in 1..Len(ops') : ops'[o].dir = d /\ o > Len(ops)

\* A URL is cached for the fully-qualified file path.
Cached(f) == f \in DOMAIN urls /\ urls[f] # Null /\ urls[f] # <<>>

\* The marker of the directory is present and older than the TTL.
Stale(d) == Has(paths, d) /\ clock - paths[d] > ttl

\* The marker of the directory is present and not older than the TTL.
Fresh(d) == Has(paths, d) /\ clock - paths[d] <= ttl

\* ------------------------------------------------------------------- C1
\* C1: while no listing of a directory has completed, the concurrent private
\* getRawUrl calls for files of that directory have caused exactly one
\* invocation of github.getContents, made by the first of them, and every
\* one of them awaits that same pending promise.
C1_OneInvocationShared ==
  \A d \in Dirs :
    (OpsOf(d) = PendingOf(d)) =>
      /\ Cardinality(OpsOf(d)) <= 1
      /\ \A i \in 1..Len(queue) : DirOf(queue[i].call) # d
      /\ \A i \in 1..Len(calls) :
           DirOf(calls[i]) = d =>
             /\ OpsOf(d) = {calls[i].op}
             /\ Has(requests, d) /\ requests[d] = calls[i].op
             /\ calls[i].issued <=> (\A j \in 1..(i - 1) : DirOf(calls[j]) # d)

\* Two calls for two files of one directory await one pending promise, the
\* only invocation so far; the first made it, the second joined it.
C1_Witness ==
  \E i, j \in 1..Len(calls) :
    /\ i < j
    /\ DirOf(calls[i]) = DirOf(calls[j])
    /\ calls[i].path # calls[j].path
    /\ calls[i].op = calls[j].op
    /\ calls[i].issued /\ ~calls[j].issued
    /\ OpsOf(DirOf(calls[i])) = {calls[i].op}
    /\ ops[calls[i].op].status = "pending"

\* ------------------------------------------------------------------- C2
\* C2 as claimed: in every reachable state at most one listing operation per
\* fully-qualified directory path is unsettled.
C2_OneInFlightPerDir ==
  \A d \in Dirs : Cardinality(PendingOf(d)) <= 1

C4_FreshMarkerNoListing ==
  [][\A a \in Coords :
       Fresh(Dir(a)) =>
         /\ ~Lists(Dir(a))
         /\ (IsCall(a) /\ ~Cached(File(a))) =>
              /\ done'.pc = "returned" /\ done'.path = a[4]
              /\ done'.result = Null /\ done'.op = 0
              /\ calls' = calls /\ queue' = queue /\ ops' = ops
              /\ requests' = requests /\ urls' = urls /\ paths' = paths]_vars

\* A call has returned null without suspending, for a file that is not
\* cached, with the marker of its directory exactly TTL old.
C4_Witness ==
  /\ done.pc = "returned" /\ done.op = 0 /\ done.result = Null
  /\ ~Cached(FileOf(done))
  /\ Has(paths, DirOf(done))
  /\ clock - paths[DirOf(done)] = ttl
  /\ ~Has(requests, DirOf(done))

\* ------------------------------------------------------------------- C5
\* The step resumes the oldest queued call, which is for the file of a, with
\* a listing that contains that file.
ResumesWith(a) ==
  /\ Resume
  /\ FileOf(Head(queue).call) = File(a)
  /\ ops[Head(queue).call.op].status = "resolved"
  /\ ops[Head(queue).call.op].files.defined
  /\ a[4] \in DOMAIN ops[Head(queue).call.op].files.list

Leftover(d) ==
  /\ Has(requests, d)
  /\ ops[requests[d]].status # "pending"
  /\ \A call \in Suspended : call.op # requests[d]

\* C6 as claimed: once a listing operation has settled, fulfilled or
\* rejected, and the calls awaiting it have resumed, no in-flight marker of
\* its directory remains.
C6_MarkerRemovedOnSettle == \A d \in Dirs : ~Leftover(d)

\* ------------------------------------------------------------------- C7
\* C7 as claimed: after a listing of a directory was rejected (the last call
\* to complete has thrown), neither marker of the directory is set, and the
\* next private getRawUrl call for an uncached file of it issues a listing.
C7_RetryAfterRejection ==
  [][\A a \in Coords :
       (done.pc = "thrown" /\ DirOf(done) = Dir(a)
          /\ IsCall(a) /\ ~Cached(File(a))) =>
         /\ ~Has(requests, Dir(a))
         /\ ~Has(paths, Dir(a))
         /\ Issues(Dir(a))]_vars

\* ------------------------------------------------------------------- C8
\* The promise stored for directory d is rejected.
Blocked(d) == Has(requests, d) /\ ops[requests[d]].status = "rejected"

\* C8 as claimed: a call that resumes on a rejected promise throws and
\* leaves the state alone; the rejected promise then stays stored for its
\* directory for ever, no listing of that directory is issued any more, and
\* every later call for an uncached file of it joins the rejected promise,
\* to throw in its turn.
C8_RejectionBlocksForever ==
  [][/\ (Resume /\ ops[Head(queue).call.op].status = "rejected") =>
          /\ done'.pc = "thrown"
          /\ urls' = urls /\ paths' = paths /\ requests' = requests
     /\ \A a \in Coords :
          Blocked(Dir(a)) =>
            /\ Has(requests', Dir(a)) /\ requests'[Dir(a)] = requests[Dir(a)]
            /\ ~Lists(Dir(a))
            /\ (IsCall(a) /\ ~Cached(File(a))) =>
                 Joins(a, requests[Dir(a)], FALSE)]_vars

\* ------------------------------------------------------------------- C9
Count(seq, rec) == Cardinality({i \in 1..Len(seq) : seq[i] = rec})

\* C9 as claimed, the part a finite run decides: a call awaiting a promise
\* stays suspended as long as the promise is pending, and while a listing of
\* a directory is pending every new call for an uncached file of that
\* directory joins it and suspends.
C9_BlockedWhilePending ==
  [][/\ \A call \in Suspended :
          (ops[call.op].status = "pending" /\ ops'[call.op].status = "pending") =>
            Count(calls', call) >= Count(calls, call)
     /\ \A a \in Coords :
          (IsCall(a) /\ ~Cached(File(a)) /\ PendingOf(Dir(a)) # {}) =>
            \E o \in PendingOf(Dir(a)) : Joins(a, o, FALSE)]_vars

\* ------------------------------------------------------------------ C10
\* C10 as claimed: a prefix operation called with an undefined argument
\* returns its first argument (the path or the HTML) unchanged, and does not
\* throw.
C10_UndefinedIsNoOp ==
  (last.fn # "none" /\ \E i \in 1..Len(last.args) : last.args[i] = Undefined) =>
    last.value = last.args[1]

\* ------------------------------------------------------------------ C11
\* The sources that getImgSrcs matches in the HTML.
SrcsOf(html) == {getImgSrcs(html)[k].src : k \in 1..Len(getImgSrcs(html))}

RECURSIVE InPlace(_, _, _)
\* The HTML from position i on with the source of every matched <img>
\* replaced, where it stands, by f[source], and every other character kept.
InPlace(html, i, f) ==
  IF i > Len(html) THEN <<>>
  ELSE LET m == MatchAt(html, i)
       IN IF m.found
          THEN SubSeq(html, i, m.at - 1) \o f[m.src]
               \o SubSeq(html, m.at + Len(m.src), m.end)
               \o InPlace(html, m.end + 1, f)
          ELSE <<html[i]>> \o InPlace(html, i + 1, f)

\* The operations that rewrite HTML, the HTML among their arguments, and
\* what each makes of one source.
HtmlOps ==
  {"relativeToRawUrls", "rawToRelativeUrls", "htmlSwapPrefix", "removePrefix",
   "addPrefix"}

HtmlArg(call) ==
  IF call.fn \in {"relativeToRawUrls", "rawToRelativeUrls"}
  THEN call.args[4] ELSE call.args[1]

Rest(src, prefix) == SubSeq(src, Len(prefix) + 1, Len(src))

Rewritten(call, src) ==
  CASE call.fn = "relativeToRawUrls" ->
         IF IsRelative(src)
         THEN PublicRawUrl(call.args[1], call.args[2], call.args[3], src)
         ELSE src
    [] call.fn = "rawToRelativeUrls" ->
         IF StartsWith(src, RawHost)
         THEN Relative(call.args[1], call.args[2], call.args[3], src)
         ELSE src
    [] call.fn = "htmlSwapPrefix" ->
         IF Swappable(src, call.args[2])
         THEN call.args[3] \o Rest(src, call.args[2])
         ELSE src
    [] call.fn = "removePrefix" ->
         IF StartsWith(src, call.args[2])
            /\ ~(call.args[2] = <<"/">> /\ StartsWith(src, <<"/", "/">>))
         THEN Rest(src, call.args[2])
         ELSE src
    [] call.fn = "addPrefix" ->
         IF IsRelative(src) THEN call.args[2] \o src ELSE src

\* The arguments are strings, and none holds a "$" (the patterns of a
\* replacement string are left aside here).
Plain(call) ==
  \A i \in 1..Len(call.args) :
    /\ call.args[i] # Undefined
    /\ \A k \in 1..Len(call.args[i]) : call.args[i][k] # "$"

\* C11 as claimed: an operation that rewrites HTML returns the HTML with the
\* source of every matched <img> replaced where it stands by the rewritten
\* source, and every character outside the matched sources unchanged.
C11_OnlyMatchedSourcesChange ==
  (last.fn \in HtmlOps /\ Plain(last)) =>
    last.value =
      InPlace(HtmlArg(last), 1,
              [src \in SrcsOf(HtmlArg(last)) |-> Rewritten(last, src)])

\* ------------------------------------------------------------------ C12
\* The sources that getImgSrcs matches in the HTML, in their order.
SrcList(html) == [k \in 1..Len(getImgSrcs(html)) |-> getImgSrcs(html)[k].src]

\* The source is an absolute URL or a data URI.
Absolute(src) ==
  \/ StartsWith(src, <<"h", "t", "t", "p", ":", "/", "/">>)
  \/ StartsWith(src, <<"h", "t", "t", "p", "s", ":", "/", "/">>)
  \/ StartsWith(src, <<"d", "a", "t", "a", ":", "i", "m", "a", "g", "e", "/">>)

HasQuery(s) == \E k \in 1..Len(s) : s[k] = "?"

\* C12 as claimed: for HTML whose sources are neither absolute nor data URIs
\* and hold no query string, relativeToRawUrls in public mode followed by
\* rawToRelativeUrls with the same owner, repo and branch yields the
\* original sources.
C12_RawThenRelativeRestores ==
  (/\ last.fn = "relativeToRawUrls;rawToRelativeUrls"
   /\ \A src \in SrcsOf(last.args[4]) : ~Absolute(src) /\ ~HasQuery(src)) =>
    /\ last.value # TypeError
    /\ SrcList(last.value) = SrcList(last.args[4])

\* ------------------------------------------------------------------ C13
\* C13 as claimed: addPrefix followed by removePrefix with the same prefix
\* restores every relative source of the HTML; addPrefix alone leaves every
\* source that is rooted, absolute or a data URI as it was.
C13_AddThenRemoveRestores ==
  /\ (/\ last.fn = "addPrefix;removePrefix"
      /\ last.args[1] # Undefined /\ last.args[2] # Undefined) =>
       /\ last.value # TypeError
       /\ Len(SrcList(last.value)) = Len(SrcList(last.args[1]))
       /\ \A k \in 1..Len(SrcList(last.args[1])) :
            IsRelative(SrcList(last.args[1])[k]) =>
              SrcList(last.value)[k] = SrcList(last.args[1])[k]
  /\ (/\ last.fn = "addPrefix"
      /\ last.args[1] # Undefined /\ last.args[2] # Undefined) =>
       /\ last.value # TypeError
       /\ Len(SrcList(last.value)) = Len(SrcList(last.args[1]))
       /\ \A k \in 1..Len(SrcList(last.args[1])) :
            ~IsRelative(SrcList(last.args[1])[k]) =>
              SrcList(last.value)[k] = SrcList(last.args[1])[k]

\* ------------------------------------------------------------------ C14
\* C14 as claimed: getRelativeUrl returns a path that does not begin with
\* the raw-content prefix of its owner, repo and branch unchanged, and
\* rawToRelativeUrls leaves every source that does not begin with it as it
\* was.
C14_OnlyOwnPrefixRewritten ==
  /\ (/\ last.fn = "getRelativeUrl"
      /\ ~StartsWith(last.args[4],
                     RawPrefix(last.args[1], last.args[2], last.args[3]))) =>
       last.value = last.args[4]
  /\ last.fn = "rawToRelativeUrls" =>
       /\ Len(SrcList(last.value)) = Len(SrcList(last.args[4]))
       /\ \A k \in 1..Len(SrcList(last.args[4])) :
            ~StartsWith(SrcList(last.args[4])[k],
                        RawPrefix(last.args[1], last.args[2], last.args[3])) =>
              SrcList(last.value)[k] = SrcList(last.args[4])[k]

\* ------------------------------------------------------------------ C15
\* C15 as claimed: getRelativeUrl of the public raw-content URL of a path is
\* the path.
C15_RelativeOfRawIsPath ==
  last.fn = "getRawUrl;getRelativeUrl" => last.value = last.args[4]

\* C15 as amended: getRelativeUrl of the public raw-content URL of a path
\* that holds no "?" is the path.
C15_RelativeOfRawIsPathNoQuery ==
  (last.fn = "getRawUrl;getRelativeUrl" /\ ~HasQuery(last.args[4])) =>
    last.value = last.args[4]

\* The round trip was made for a path in a directory, and gave it back.
C15_Witness ==
  /\ last.fn = "getRawUrl;getRelativeUrl"
  /\ last.args[4] = <<"d", "/", "a">>
  /\ last.value = <<"d", "/", "a">>

\* ------------------------------------------------------------------ C16
\* C16: a step that is a public-mode getRawUrl call invokes no listing,
\* leaves the three mappings, the promises and the suspended calls as they
\* were, and returns (it does not throw) the raw-content host followed by
\* owner, repo, branch and path, whatever the state holds.
C16_PublicModeIsPure ==
  [][\A a \in Coords :
       GetRawUrl(a[1], a[2], a[3], a[4], FALSE) =>
         /\ ops' = ops
         /\ urls' = urls /\ paths' = paths /\ requests' = requests
         /\ calls' = calls /\ queue' = queue
         /\ done'.pc = "returned" /\ done'.path = a[4]
         /\ done'.result =
              RawHost \o a[1] \o <<"/">> \o a[2] \o <<"/">> \o a[3]
                \o <<"/">> \o a[4]]_vars

\* A public-mode call has returned its URL while a URL was cached, a
\* promise was stored and a call was suspended on it.
C16_Witness ==
  /\ done.pc = "returned"
  /\ done.result = RawHost \o FileOf(done)
  /\ urls # EmptyObject
  /\ requests # EmptyObject
  /\ calls # <<>>

\* ------------------------------------------------------------------ C17
\* The listings of directory d that have completed: fulfilled by the
\* collaborator.  (A collected one was applied to the URL mapping by every
\* call that awaited it.)
CompletedOf(d) == {o \in OpsOf(d) : ops[o].status \in {"resolved", "collected"}}

\* The listing o, whose result the state still holds, contains the path.
Contains(o, path) ==
  /\ ops[o].status = "resolved"
  /\ ops[o].files.defined
  /\ path \in DOMAIN ops[o].files.list

\* C17 as claimed: when a private getRawUrl call returns null because the
\* marker of the directory is fresh, a listing of the directory has
\* completed, and the listing of the directory that completed last did not
\* contain the file.  (Stated for the listing issued last, when it has
\* completed.)
C17_NullMeansAbsent ==
  [][\A a \in Coords :
       (IsCall(a) /\ ~Cached(File(a)) /\ Fresh(Dir(a))) =>
         /\ CompletedOf(Dir(a)) # {}
         /\ \A o \in CompletedOf(Dir(a)) :
              (\A o2 \in OpsOf(Dir(a)) : o2 <= o) => ~Contains(o, a[4])]_vars

\* ------------------------------------------------------------------ C18
\* C18 as claimed: the marker of a directory holds the time at which its
\* listing was requested.  (Stated where one listing of the directory was
\* ever requested, and the clock stood still until then: at StartTime.)
C18_MarkerIsRequestTime ==
  \A d \in Dirs :
    (Has(paths, d) /\ Cardinality(OpsOf(d)) = 1 /\ Len(ops) = 1) =>
      paths[d] = StartTime

\* ------------------------------------------------------------------ C19
\* C19: a key of the URL mapping is never removed.
C19_UrlsAdditive ==
  [][\A k \in DOMAIN urls : k \in DOMAIN urls']_vars

\* Two files are cached with the tokens of two different listings: the
\* second listing added to what the first had left.
C19_Witness ==
  \E f, g \in DOMAIN urls :
    /\ f # g
    /\ urls[f] # Null /\ urls[g] # Null
    /\ urls[f][Len(urls[f])] # urls[g][Len(urls[g])]

\* ------------------------------------------------------------------ C20
\* C20 as claimed: a private-mode relativeToRawUrls call from the empty
\* cache issues at most one listing for each directory, and returns the
\* HTML with every relative source that a listing contained replaced by its
\* download_url and every other source as it was.
C20_OneListingPerDirectory ==
  /\ \A o1, o2 \in 1..Len(ops) : ops[o1].dir = ops[o2].dir => o1 = o2
  /\ rewrite.pc = "returned" =>
       last.value =
         InPlace(rewrite.html, 1,
                 [src \in SrcsOf(rewrite.html) |->
                    IF /\ IsRelative(src)
                       /\ Cached(FullPath(rewrite.owner, rewrite.repo,
                                          rewrite.branch, src))
                    THEN urls[FullPath(rewrite.owner, rewrite.repo,
                                       rewrite.branch, src)]
                    ELSE src])

====
